---- MODULE Spec2Model ----
(***************************************************************************)
(* Model of the locator reconciliation and code-generation pipeline:       *)
(*   utils.sanitize_identifier_for_method_name                             *)
(*   locator_extractor_refactored.extract_locators                         *)
(*   Backupcodes/pom_generator_backup.generate_pom                         *)
(*   ollama_utils.query_ollama                                             *)
(*   gherkin_generator_refactored.LocatorMap, generate_gherkin             *)
(*   gherkin_to_test_ai_refactored.convert_gherkin_to_test                 *)
(*   main_refactored.process_url_and_gherkin                               *)
(* A Python str is a sequence of one-character strings.                    *)
(***************************************************************************)
EXTENDS Integers, Sequences, FiniteSets, TLC

VARIABLES
    raw_identifier_str,     \* sanitizer: first argument
    category_for_fallback,  \* sanitizer: second argument
    sane_name,              \* sanitizer: value returned by the first call
    sane_again,             \* sanitizer: value returned when fed its own output
    san_pc,                 \* "start" | "once" | "twice"
    ex_locators,            \* extract_locators: value of generate_json_with_ollama
    ex_unique_locators,     \* extract_locators: returned list
    ex_file,                \* LOCATORS/<class>_locators.json: [written, content]
    ex_pc,                  \* "start" | "returned" | "raised"
    pom_locators,           \* generate_pom: value of generate_json_with_ollama
    pom_unique_locators,    \* generate_pom: list kept by validation
    pom_parts,              \* generate_pom: actual_method_name_part per kept record
    pom_methods,            \* generate_pom: names of the methods appended to pom_content
    pom_file,               \* <class>_page.py written?
    pom_pc,                 \* "start" | "returned" | "failed" | "raised"
    gh_locators,            \* generate_gherkin: argument locators
    gh_response,            \* generate_gherkin: what the HTTP request of query_ollama met
    gh_content,             \* generate_gherkin: gherkin_content, the value of query_ollama
    gh_calls,               \* LocatorMap: the add_locator calls made so far, in order
    gh_map,                 \* LocatorMap._map: entries in insertion order
    gh_file,                \* FEATURES/<class>.feature: [written, content]
    gh_pc,                  \* "start" | "returned" | "failed" | "raised"
    cv_gherkin_content,     \* convert_gherkin_to_test: argument gherkin_content
    cv_locator_map,         \* convert_gherkin_to_test: was a locator_map passed?
    cv_steps,               \* convert_gherkin_to_test: steps, pairs (current_scenario, line)
    cv_requests,            \* convert_gherkin_to_test: calls of query_ollama made
    cv_response,            \* convert_gherkin_to_test: what the HTTP request met
    cv_test_content,        \* convert_gherkin_to_test: test_content handed to f.write
    cv_file,                \* tests/test_<class>.py: [written, content]
    cv_pc,                  \* "start" | "returned" | "failed" | "raised"
    or_pc,                  \* process_url_and_gherkin: position, "start" .. "returned" | "raised"
    or_driver,              \* process_url_and_gherkin: driver, "none" | "open" | "quit"
    or_quits,               \* process_url_and_gherkin: calls of driver.quit() made
    or_gherkin_file,        \* process_url_and_gherkin: gherkin_file given and existing?
    or_gherkin_content,     \* process_url_and_gherkin: gherkin_content
    or_locator_map,         \* process_url_and_gherkin: is locator_map a LocatorMap?
    or_stages,              \* process_url_and_gherkin: the stages started, in order
    or_tests,               \* pytest run: "not_run" | "passed" | "failed" | "error"
    jh_prompt,              \* generate_json_with_ollama: prompt, the base and what was appended
    jh_attempt,             \* generate_json_with_ollama: attempt, the loop index
    jh_requests,            \* generate_json_with_ollama: the prompts sent to query_ollama
    jh_log,                 \* generate_json_with_ollama: the warnings logged, in order
    jh_response,            \* generate_json_with_ollama: what the last HTTP request met
    jh_result,              \* generate_json_with_ollama: the value returned
    jh_pc                   \* "running" | "returned" | "raised"

sanVars == <<raw_identifier_str, category_for_fallback, sane_name, sane_again, san_pc>>
exVars  == <<ex_locators, ex_unique_locators, ex_file, ex_pc>>
pomVars == <<pom_locators, pom_unique_locators, pom_parts, pom_methods, pom_file, pom_pc>>
ghVars  == <<gh_locators, gh_response, gh_content, gh_calls, gh_map, gh_file, gh_pc>>
cvVars  == <<cv_gherkin_content, cv_locator_map, cv_steps, cv_requests, cv_response,
             cv_test_content, cv_file, cv_pc>>
orVars  == <<or_pc, or_driver, or_quits, or_gherkin_file, or_gherkin_content,
             or_locator_map, or_stages, or_tests>>
jhVars  == <<jh_prompt, jh_attempt, jh_requests, jh_log, jh_response, jh_result, jh_pc>>
vars    == <<sanVars, exVars, pomVars, ghVars, cvVars, orVars, jhVars>>

(***************************************************************************)
(* Bounds                                                                  *)
(***************************************************************************)
MaxStrLen == 4      \* longest raw identifier given to the sanitizer
MaxExLocators == 2  \* longest list of entries the oracle helper yields to extract_locators
MaxPomLocators == 3 \* longest list of entries the oracle helper yields to generate_pom
MaxShapeLocators == 2 \* longest list of entries when every category is offered

(***************************************************************************)
(* Characters (Python 3 str semantics: \w, lower() and isdigit() are       *)
(* Unicode-aware; "U+00E9" stands for one non-ASCII lower-case letter)     *)
(***************************************************************************)
LowerSeq == <<"a", "b", "c", "d", "e", "f", "g", "h", "i", "j", "k", "l", "m",
              "n", "o", "p", "q", "r", "s", "t", "u", "v", "w", "x", "y", "z">>
UpperSeq == <<"A", "B", "C", "D", "E", "F", "G", "H", "I", "J", "K", "L", "M",
              "N", "O", "P", "Q", "R", "S", "T", "U", "V", "W", "X", "Y", "Z">>
DigitSeq == <<"0", "1", "2", "3", "4", "5", "6", "7", "8", "9">>
Range(f) == {f[i] : i \in DOMAIN f}
AsciiLower == Range(LowerSeq)
AsciiUpper == Range(UpperSeq)
AsciiDigit == Range(DigitSeq)
NonAsciiLetter == {"U+00E9"}

\* str.isdigit() of one character
IsDigit(c) == c \in AsciiDigit
\* re \w: alphanumeric (Unicode) or underscore
WordChars == AsciiLower \cup AsciiUpper \cup AsciiDigit \cup NonAsciiLetter \cup {"_"}
IsWordChar(c) == c \in WordChars
\* str.lower() of one character
LowerOfUpper == [c \in AsciiUpper |-> LowerSeq[CHOOSE i \in DOMAIN UpperSeq : UpperSeq[i] = c]]
LowerChar(c) == IF c \in AsciiUpper THEN LowerOfUpper[c] ELSE c
\* str.lower()
StrLower(s) == [i \in DOMAIN s |-> LowerChar(s[i])]
\* str.replace(old, new) for one-character old and new
StrReplace(s, old, new) == [i \in DOMAIN s |-> IF s[i] = old THEN new ELSE s[i]]

\* the rest of s after its leading run of characters matching \W
RECURSIVE SkipNonWord(_)
SkipNonWord(s) ==
    IF s = <<>> \/ IsWordChar(Head(s)) THEN s ELSE SkipNonWord(Tail(s))

\* re.sub(r'[\W_]+', '_', s): underscores join the replaced runs
RECURSIVE SkipNonWordOrUnderscore(_)
SkipNonWordOrUnderscore(s) ==
    IF s = <<>> \/ (IsWordChar(Head(s)) /\ Head(s) # "_") THEN s
    ELSE SkipNonWordOrUnderscore(Tail(s))
RECURSIVE ReSubNonWordOrUnderscore(_)
ReSubNonWordOrUnderscore(s) ==
    IF s = <<>> THEN <<>>
    ELSE IF IsWordChar(Head(s)) /\ Head(s) # "_"
    THEN <<Head(s)>> \o ReSubNonWordOrUnderscore(Tail(s))
    ELSE <<"_">> \o ReSubNonWordOrUnderscore(SkipNonWordOrUnderscore(Tail(s)))

\* re.sub(r'\W+', '_', s)
RECURSIVE ReSubNonWord(_)
ReSubNonWord(s) ==
    IF s = <<>> THEN <<>>
    ELSE IF IsWordChar(Head(s)) THEN <<Head(s)>> \o ReSubNonWord(Tail(s))
    ELSE <<"_">> \o ReSubNonWord(SkipNonWord(Tail(s)))

\* str.lstrip(ch), str.rstrip(ch), str.strip(ch)
RECURSIVE LStrip(_, _)
LStrip(s, ch) == IF s # <<>> /\ Head(s) = ch THEN LStrip(Tail(s), ch) ELSE s
RECURSIVE RStrip(_, _)
RStrip(s, ch) ==
    IF s # <<>> /\ s[Len(s)] = ch THEN RStrip(SubSeq(s, 1, Len(s) - 1), ch) ELSE s
Strip(s, ch) == RStrip(LStrip(s, ch), ch)

\* str.strip() without argument removes white space
WhiteSpace == {" ", "\n", "\t"}
RECURSIVE LStripSpace(_)
LStripSpace(s) == IF s # <<>> /\ Head(s) \in WhiteSpace THEN LStripSpace(Tail(s)) ELSE s
RECURSIVE RStripSpace(_)
RStripSpace(s) ==
    IF s # <<>> /\ s[Len(s)] \in WhiteSpace
    THEN RStripSpace(SubSeq(s, 1, Len(s) - 1)) ELSE s
StripSpace(s) == RStripSpace(LStripSpace(s))

\* str.startswith(prefix)
StartsWith(s, prefix) == Len(s) >= Len(prefix) /\ SubSeq(s, 1, Len(prefix)) = prefix
\* the 0-based offsets at which sub occurs in s
Occurrences(s, sub) == {i \in 0..(Len(s) - Len(sub)) : SubSeq(s, i + 1, i + Len(sub)) = sub}
\* `sub in s`
Contains(s, sub) == Occurrences(s, sub) # {}
\* str.index(sub) and str.rindex(sub); -1 stands for ValueError
Index(s, sub) ==
    IF Contains(s, sub)
    THEN CHOOSE i \in Occurrences(s, sub) : \A j \in Occurrences(s, sub) : i <= j
    ELSE -1
RIndex(s, sub) ==
    IF Contains(s, sub)
    THEN CHOOSE i \in Occurrences(s, sub) : \A j \in Occurrences(s, sub) : i >= j
    ELSE -1
\* the slice s[from:to] for 0 <= from and 0 <= to
Slice(s, from, to) == SubSeq(s, from + 1, IF to > Len(s) THEN Len(s) ELSE to)

\* str.splitlines(); "\n" is the only line boundary in the texts modelled
RECURSIVE SplitLines(_)
SplitLines(s) ==
    IF s = <<>> THEN <<>>
    ELSE LET first_break == Index(s, <<"\n">>)
         IN  IF first_break = -1 THEN <<s>>
             ELSE <<SubSeq(s, 1, first_break)>>
                  \o SplitLines(SubSeq(s, first_break + 2, Len(s)))

Unnamed == <<"u", "n", "n", "a", "m", "e", "d", "_">>
\* f"unnamed_{str(category_for_fallback).lower().replace(' ', '_')}"
FallbackName(category) == Unnamed \o StrReplace(StrLower(category), " ", "_")

sanitize_identifier_for_method_name(raw, category) ==
    IF raw = <<>> THEN FallbackName(category)
    ELSE LET stripped == Strip(ReSubNonWord(StrLower(raw)), "_")
             named == IF stripped = <<>> THEN FallbackName(category) ELSE stripped
         IN  IF IsDigit(named[1]) THEN <<"_">> \o named ELSE named

\* the default of category_for_fallback
CatElement == <<"e", "l", "e", "m", "e", "n", "t">>

(***************************************************************************)
(* Inputs of the sanitizer                                                 *)
(***************************************************************************)
SanChars == {"a", "B", "1", "_", " ", "-", "U+00E9"}
RawStrings == UNION {[1..n -> SanChars] : n \in 0..MaxStrLen}
CatButton == <<"b", "u", "t", "t", "o", "n">>
CatInputField == <<"i", "n", "p", "u", "t", "_", "f", "i", "e", "l", "d">>
CatDropDash == <<"d", "r", "o", "p", "-", "d", "o", "w", "n">>
CatDropSpace == <<"D", "r", "o", "p", " ", "D", "o", "w", "n">>
FallbackCategories == {CatButton, CatInputField, CatDropDash, CatDropSpace, <<>>}

(***************************************************************************)
(* Idle values of the parts a specification does not run                   *)
(***************************************************************************)
SanIdle ==
    /\ raw_identifier_str = <<>>
    /\ category_for_fallback = <<>>
    /\ sane_name = <<>>
    /\ sane_again = <<>>
    /\ san_pc = "start"

NoFile == [written |-> FALSE, content |-> <<>>]

ExIdle ==
    /\ ex_locators = [kind |-> "none", items |-> <<>>]
    /\ ex_unique_locators = <<>>
    /\ ex_file = NoFile
    /\ ex_pc = "start"

PomIdle ==
    /\ pom_locators = [kind |-> "none", items |-> <<>>]
    /\ pom_unique_locators = <<>>
    /\ pom_parts = <<>>
    /\ pom_methods = <<>>
    /\ pom_file = FALSE
    /\ pom_pc = "start"

GhIdle ==
    /\ gh_locators = <<>>
    /\ gh_response = [kind |-> "failed", text |-> <<>>]
    /\ gh_content = [is_none |-> TRUE, text |-> <<>>]
    /\ gh_calls = <<>>
    /\ gh_map = <<>>
    /\ gh_file = NoFile
    /\ gh_pc = "start"

OrIdle ==
    /\ or_pc = "start"
    /\ or_driver = "none"
    /\ or_quits = 0
    /\ or_gherkin_file = FALSE
    /\ or_gherkin_content = <<>>
    /\ or_locator_map = FALSE
    /\ or_stages = <<>>
    /\ or_tests = "not_run"

JhIdle ==
    /\ jh_prompt = <<"PROMPT">>
    /\ jh_attempt = 0
    /\ jh_requests = <<>>
    /\ jh_log = <<>>
    /\ jh_response = [kind |-> "failed", text |-> <<>>]
    /\ jh_result = [kind |-> "none", items |-> <<>>]
    /\ jh_pc = "running"

CvIdle ==
    /\ cv_gherkin_content = <<>>
    /\ cv_locator_map = TRUE
    /\ cv_steps = <<>>
    /\ cv_requests = 0
    /\ cv_response = [kind |-> "failed", text |-> <<>>]
    /\ cv_test_content = <<>>
    /\ cv_file = NoFile
    /\ cv_pc = "start"

(***************************************************************************)
(* Specification of the sanitizer: call it on an input, then on its output *)
(***************************************************************************)
SanInit == SanIdle /\ ExIdle /\ PomIdle /\ GhIdle /\ CvIdle /\ OrIdle /\ JhIdle

Sanitize ==
    /\ san_pc = "start"
    /\ \E raw \in RawStrings, category \in FallbackCategories :
          /\ raw_identifier_str' = raw
          /\ category_for_fallback' = category
          /\ sane_name' = sanitize_identifier_for_method_name(raw, category)
    /\ san_pc' = "once"
    /\ UNCHANGED <<sane_again, exVars, pomVars, ghVars, cvVars, orVars, jhVars>>

SanitizeAgain ==
    /\ san_pc = "once"
    /\ sane_again' = sanitize_identifier_for_method_name(sane_name, category_for_fallback)
    /\ san_pc' = "twice"
    /\ UNCHANGED <<raw_identifier_str, category_for_fallback, sane_name, exVars, pomVars,
                   ghVars, cvVars, orVars, jhVars>>

SanNext == Sanitize \/ SanitizeAgain

SpecSanitize == SanInit /\ [][SanNext]_vars

(***************************************************************************)
(* query_ollama.  The HTTP request fails (timeout, HTTP status, network     *)
(* error, body that is no JSON), or the body is JSON without a string under *)
(* "response" (AttributeError leaves query_ollama), or it carries a text.  *)
(* The value returned is None or the text.                                 *)
(***************************************************************************)
HttpFailed == [kind |-> "failed", text |-> <<>>]
HttpMalformed == [kind |-> "malformed", text |-> <<>>]
HttpText(text) == [kind |-> "text", text |-> text]
None == [is_none |-> TRUE, text |-> <<>>]
Str(text) == [is_none |-> FALSE, text |-> text]

\* the branch of lines 29-31 with the test for white space left out
query_ollama_unstripped(reply) ==
    IF reply.kind = "failed" THEN None
    ELSE IF reply.text = <<>> THEN None
    ELSE Str(reply.text)

\* lines 22-46, for a reply that is not malformed
query_ollama(reply) ==
    IF reply.kind = "failed" THEN None
    ELSE IF StripSpace(reply.text) = <<>> THEN None
    ELSE Str(reply.text)

\* `not value` for the value of query_ollama
Falsy(value) == value.is_none \/ value.text = <<>>

(***************************************************************************)
(* Oracle results and locator entries.  The value generate_json_with_ollama *)
(* hands back is None, a parsed JSON value that is no list, or a list; an  *)
(* entry of the list is a JSON object (is_dict) or any other JSON value.   *)
(* A missing or empty field is the empty string: both are falsy.           *)
(***************************************************************************)
Entry(is_dict, identifier, category, xpath, css_selector) ==
    [is_dict |-> is_dict, identifier |-> identifier, category |-> category,
     xpath |-> xpath, css_selector |-> css_selector]
NonDictEntry == Entry(FALSE, <<>>, <<>>, "", "")

IdX == <<"x">>
IdY == <<"y">>
IdXBang == <<"X", "!">>
IdX1 == <<"x", "_", "1">>
IdOptionFromX == <<"o", "p", "t", "i", "o", "n", "_", "f", "r", "o", "m", "_", "x">>
CatDropdown == <<"d", "r", "o", "p", "d", "o", "w", "n">>
CatRadio == <<"r", "a", "d", "i", "o">>
CatCheckbox == <<"c", "h", "e", "c", "k", "b", "o", "x">>
CatOther == <<"o", "t", "h", "e", "r">>

\* entries offered to extract_locators
ExEntries ==
    {NonDictEntry} \cup
    {Entry(TRUE, id, CatButton, xp, css) :
        id \in {<<>>, IdX, IdY}, xp \in {"", "//a", "//b"}, css \in {"", "#a"}}

\* entries offered to generate_pom: one family varies the validated fields,
\* the other the identifiers and categories the method names are built from
PomEntries ==
    {NonDictEntry} \cup
    {Entry(TRUE, id, CatButton, xp, css) :
        id \in {<<>>, IdX}, xp \in {"", "//a"}, css \in {"", "#a"}} \cup
    {Entry(TRUE, id, cat, "//a", "") :
        id \in {IdX, IdXBang, IdX1, IdOptionFromX}, cat \in {CatDropdown, CatRadio}}

SeqsUpTo(S, n) == UNION {[1..k -> S] : k \in 0..n}
JsonNone == [kind |-> "none", items |-> <<>>]         \* None: nothing parsed
JsonNonList == [kind |-> "non_list", items |-> <<>>]  \* a truthy object, string or number
JsonList(items) == [kind |-> "list", items |-> items]
ExOracleResults ==
    {JsonNone, JsonNonList} \cup {JsonList(l) : l \in SeqsUpTo(ExEntries, MaxExLocators)}
PomOracleResults ==
    {JsonNone, JsonNonList} \cup {JsonList(l) : l \in SeqsUpTo(PomEntries, MaxPomLocators)}

\* the oracle check without `not locators`: an empty list passes it
OracleResultRejectedNonListOnly(locators) == locators.kind # "list"

\* `not locators or not isinstance(locators, list)`
OracleResultRejected(locators) == locators.kind # "list" \/ locators.items = <<>>

(***************************************************************************)
(* extract_locators                                                        *)
(***************************************************************************)
\* `not locator.get("xpath") or not locator.get("css_selector")`
ExMissingLocator(locator) == locator.xpath = "" \/ locator.css_selector = ""

\* `not identifier or identifier in seen`
ExSkipIdentifier(identifier, seen) == identifier = <<>> \/ identifier \in seen

\* the loop of lines 63-71 over entries that are all objects
RECURSIVE ExValidate(_, _, _)
ExValidate(items, seen, unique) ==
    IF items = <<>> THEN unique
    ELSE LET locator == Head(items)
             identifier == locator.identifier
         IN  IF ExSkipIdentifier(identifier, seen)
             THEN ExValidate(Tail(items), seen, unique)
             ELSE IF ExMissingLocator(locator)
             THEN ExValidate(Tail(items), seen, unique)
             ELSE ExValidate(Tail(items), seen \cup {identifier}, Append(unique, locator))

\* locator.get(...) on an entry that is no object raises AttributeError
ExLoopRaises(items) == \E i \in DOMAIN items : ~items[i].is_dict

\* One call of extract_locators.  First disjunct: reading the page or writing
\* debug_html.txt raises (lines 14-22).  write_ok: the locator file could be
\* written (lines 81-86; a failure is logged and the list is still returned).
extract_locators_given(OracleResults) ==
    /\ ex_pc = "start"
    /\ \/ /\ ex_pc' = "raised"
          /\ UNCHANGED <<ex_locators, ex_unique_locators, ex_file>>
       \/ \E locators \in OracleResults :
             /\ ex_locators' = locators
             /\ IF OracleResultRejected(locators) \/ ExLoopRaises(locators.items)
                THEN /\ ex_pc' = "raised"
                     /\ UNCHANGED <<ex_unique_locators, ex_file>>
                ELSE LET unique_locators == ExValidate(locators.items, {}, <<>>)
                     IN  /\ ex_unique_locators' = unique_locators
                         /\ \E write_ok \in BOOLEAN :
                               ex_file' = IF write_ok
                                          THEN [written |-> TRUE, content |-> unique_locators]
                                          ELSE ex_file
                         /\ ex_pc' = "returned"

extract_locators ==
    /\ extract_locators_given(ExOracleResults)
    /\ UNCHANGED <<sanVars, pomVars, ghVars, cvVars, orVars, jhVars>>

(***************************************************************************)
(* generate_pom                                                            *)
(***************************************************************************)
\* the locator test written with `is None`: an empty string passes it
PomMissingLocatorNoneOnly(locator_item) == FALSE

\* `not locator_item.get("xpath") and not locator_item.get("css_selector")`
PomMissingLocator(locator_item) ==
    locator_item.xpath = "" /\ locator_item.css_selector = ""

\* the loop of lines 53-70
RECURSIVE PomValidate(_, _, _)
PomValidate(items, seen_raw_identifiers, unique) ==
    IF items = <<>> THEN unique
    ELSE LET locator_item == Head(items)
             raw_identifier == locator_item.identifier
         IN  IF ~locator_item.is_dict
             THEN PomValidate(Tail(items), seen_raw_identifiers, unique)
             ELSE IF raw_identifier = <<>> \/ raw_identifier \in seen_raw_identifiers
             THEN PomValidate(Tail(items), seen_raw_identifiers, unique)
             ELSE IF PomMissingLocator(locator_item)
             THEN PomValidate(Tail(items), seen_raw_identifiers, unique)
             ELSE PomValidate(Tail(items), seen_raw_identifiers \cup {raw_identifier},
                              Append(unique, locator_item))

\* str(count) for a natural number
RECURSIVE IntToStr(_)
IntToStr(n) ==
    IF n < 10 THEN <<DigitSeq[n + 1]>> ELSE IntToStr(n \div 10) \o <<DigitSeq[(n % 10) + 1]>>

\* the while loop of lines 134-137, entered with the base name taken
RECURSIVE NextFreeName(_, _, _)
NextFreeName(method_name_base, count, generated_method_names) ==
    LET candidate == method_name_base \o <<"_">> \o IntToStr(count)
    IN  IF candidate \in generated_method_names
        THEN NextFreeName(method_name_base, count + 1, generated_method_names)
        ELSE candidate

\* the collision loop that tries the suffix _1 only
ResolveNameOnce(method_name_base, generated_method_names) ==
    IF method_name_base \in generated_method_names
    THEN method_name_base \o <<"_", "1">>
    ELSE method_name_base

\* lines 133-137: actual_method_name_part
ResolveName(method_name_base, generated_method_names) ==
    IF method_name_base \in generated_method_names
    THEN NextFreeName(method_name_base, 1, generated_method_names)
    ELSE method_name_base

VerbEnter == <<"e", "n", "t", "e", "r", "_">>
VerbClick == <<"c", "l", "i", "c", "k", "_">>
VerbCheck == <<"c", "h", "e", "c", "k", "_">>
VerbSelectOptionFrom == <<"s", "e", "l", "e", "c", "t", "_", "o", "p", "t", "i", "o", "n",
                          "_", "f", "r", "o", "m", "_">>
VerbSelect == <<"s", "e", "l", "e", "c", "t", "_">>

Method(name, parameter, guarded) ==
    [name |-> name, parameter |-> parameter, guarded |-> guarded]

\* the templates with the test of lines 140-143 left out: a record without
\* xpath gets a method as well
MethodsForAnyXpath(locator_item, actual_method_name_part) ==
    IF locator_item.category = CatInputField
    THEN <<Method(VerbEnter \o actual_method_name_part, "value", FALSE)>>
    ELSE IF locator_item.category = CatButton
    THEN <<Method(VerbClick \o actual_method_name_part, "", FALSE)>>
    ELSE IF locator_item.category = CatCheckbox
    THEN <<Method(VerbCheck \o actual_method_name_part, "", TRUE)>>
    ELSE IF locator_item.category = CatDropdown
    THEN <<Method(VerbSelectOptionFrom \o actual_method_name_part, "option_text", FALSE)>>
    ELSE IF locator_item.category = CatRadio
    THEN <<Method(VerbSelect \o actual_method_name_part, "", TRUE)>>
    ELSE <<>>

\* the templates with the radio method clicking without the is_selected test
MethodsForRadioUnguarded(locator_item, actual_method_name_part) ==
    IF locator_item.xpath = "" THEN <<>>
    ELSE IF locator_item.category = CatInputField
    THEN <<Method(VerbEnter \o actual_method_name_part, "value", FALSE)>>
    ELSE IF locator_item.category = CatButton
    THEN <<Method(VerbClick \o actual_method_name_part, "", FALSE)>>
    ELSE IF locator_item.category = CatCheckbox
    THEN <<Method(VerbCheck \o actual_method_name_part, "", TRUE)>>
    ELSE IF locator_item.category = CatDropdown
    THEN <<Method(VerbSelectOptionFrom \o actual_method_name_part, "option_text", FALSE)>>
    ELSE IF locator_item.category = CatRadio
    THEN <<Method(VerbSelect \o actual_method_name_part, "", FALSE)>>
    ELSE <<>>

\* lines 140-201: the methods appended to pom_content for one record
MethodsFor(locator_item, actual_method_name_part) ==
    IF locator_item.xpath = "" THEN <<>>
    ELSE IF locator_item.category = CatInputField
    THEN <<Method(VerbEnter \o actual_method_name_part, "value", FALSE)>>
    ELSE IF locator_item.category = CatButton
    THEN <<Method(VerbClick \o actual_method_name_part, "", FALSE)>>
    ELSE IF locator_item.category = CatCheckbox
    THEN <<Method(VerbCheck \o actual_method_name_part, "", TRUE)>>
    ELSE IF locator_item.category = CatDropdown
    THEN <<Method(VerbSelectOptionFrom \o actual_method_name_part, "option_text", FALSE)>>
    ELSE IF locator_item.category = CatRadio
    THEN <<Method(VerbSelect \o actual_method_name_part, "", TRUE)>>
    ELSE <<>>

\* the loop of lines 127-201: [parts, methods] for the kept records
RECURSIVE PomEmit(_, _, _, _)
PomEmit(unique_locators, generated_method_names, parts, methods) ==
    IF unique_locators = <<>> THEN [parts |-> parts, methods |-> methods]
    ELSE LET locator_item == Head(unique_locators)
             method_name_base ==
                 sanitize_identifier_for_method_name(locator_item.identifier,
                                                     locator_item.category)
             actual_method_name_part == ResolveName(method_name_base, generated_method_names)
         IN  PomEmit(Tail(unique_locators),
                     generated_method_names \cup {actual_method_name_part},
                     Append(parts, actual_method_name_part),
                     methods \o MethodsFor(locator_item, actual_method_name_part))

\* the except branch of a failed write re-raising the exception
WriteFailedRaised == "raised"

\* the except branch of a failed write (generate_pom lines 209-211,
\* generate_gherkin lines 79-81, convert_gherkin_to_test lines 158-160): the
\* error is logged and the stage returns None, or (None, None)
WriteFailed == "failed"

\* One call of generate_pom.  First disjunct: reading the page raises (lines
\* 15-17).  write_ok: the page-object file could be written (lines 204-211).
generate_pom_given(OracleResults) ==
    /\ pom_pc = "start"
    /\ \/ /\ pom_pc' = "raised"
          /\ UNCHANGED <<pom_locators, pom_unique_locators, pom_parts, pom_methods, pom_file>>
       \/ \E locators \in OracleResults :
             /\ pom_locators' = locators
             /\ IF OracleResultRejected(locators)
                THEN /\ pom_pc' = "raised"
                     /\ UNCHANGED <<pom_unique_locators, pom_parts, pom_methods, pom_file>>
                ELSE LET unique_locators == PomValidate(locators.items, {}, <<>>)
                         emitted == PomEmit(unique_locators, {}, <<>>, <<>>)
                     IN  /\ pom_unique_locators' = unique_locators
                         /\ pom_parts' = emitted.parts
                         /\ pom_methods' = emitted.methods
                         /\ \E write_ok \in BOOLEAN :
                               /\ pom_file' = write_ok
                               /\ pom_pc' = IF write_ok THEN "returned" ELSE WriteFailed

generate_pom ==
    /\ generate_pom_given(PomOracleResults)
    /\ UNCHANGED <<sanVars, exVars, ghVars, cvVars, orVars, jhVars>>

(***************************************************************************)
(* Specification of the two stages that validate oracle entries: one call  *)
(* of extract_locators, or one call of generate_pom, on any oracle result  *)
(***************************************************************************)
StagesInit == SanIdle /\ ExIdle /\ PomIdle /\ GhIdle /\ CvIdle /\ OrIdle /\ JhIdle

ExtractionStage == pom_pc = "start" /\ extract_locators
AccessorStage == ex_pc = "start" /\ generate_pom
StagesNext == ExtractionStage \/ AccessorStage

SpecStages == StagesInit /\ [][StagesNext]_vars

(***************************************************************************)
(* Specification of the method templates: one call of generate_pom on      *)
(* entries of every category, with and without xpath                       *)
(***************************************************************************)
IdUsername == <<"u", "s", "e", "r", "n", "a", "m", "e">>
IdSubmit == <<"s", "u", "b", "m", "i", "t">>
ShapeCategories ==
    {CatInputField, CatButton, CatCheckbox, CatDropdown, CatRadio, CatOther}
ShapeEntries ==
    {Entry(TRUE, id, cat, xp, "#a") :
        id \in {IdUsername, IdSubmit}, cat \in ShapeCategories, xp \in {"", "//a"}}
ShapeOracleResults ==
    {JsonNone} \cup {JsonList(l) : l \in SeqsUpTo(ShapeEntries, MaxShapeLocators)}

ShapesInit == SanIdle /\ ExIdle /\ PomIdle /\ GhIdle /\ CvIdle /\ OrIdle /\ JhIdle
ShapesNext ==
    /\ generate_pom_given(ShapeOracleResults)
    /\ UNCHANGED <<sanVars, exVars, ghVars, cvVars, orVars, jhVars>>

SpecShapes == ShapesInit /\ [][ShapesNext]_vars

(***************************************************************************)
(* LocatorMap and generate_gherkin.  _map is a dict: its entries are kept  *)
(* in insertion order under distinct keys.                                 *)
(***************************************************************************)
MaxDocLines == 3   \* most lines in a text the oracle answers the scenario request with
MaxAddCalls == 3   \* most add_locator calls made on one LocatorMap by a free caller

MapEntry(identifier, element_info, gherkin_step) ==
    [identifier |-> identifier, element_info |-> element_info, gherkin_step |-> gherkin_step]

\* a mapping kept as a list that every call appends to
add_locator_appending(map, identifier, element_info, gherkin_step) ==
    Append(map, MapEntry(identifier, element_info, gherkin_step))

\* lines 11-15: self._map[identifier] = {...}
add_locator(map, identifier, element_info, gherkin_step) ==
    IF \E i \in DOMAIN map : map[i].identifier = identifier
    THEN [i \in DOMAIN map |->
             IF map[i].identifier = identifier
             THEN MapEntry(identifier, element_info, gherkin_step)
             ELSE map[i]]
    ELSE Append(map, MapEntry(identifier, element_info, gherkin_step))

\* the mapping after a list of add_locator calls
RECURSIVE AddAll(_, _)
AddAll(map, calls) ==
    IF calls = <<>> THEN map
    ELSE AddAll(add_locator(map, Head(calls).identifier, Head(calls).element_info,
                            Head(calls).gherkin_step),
                Tail(calls))

KwGiven == <<"G", "i", "v", "e", "n", " ">>
KwWhen == <<"W", "h", "e", "n", " ">>
KwAnd == <<"A", "n", "d", " ">>
KwThen == <<"T", "h", "e", "n", " ">>
\* line.startswith(("Given ", "When ", "And ", "Then "))
IsStepLine(line) == \E keyword \in {KwGiven, KwWhen, KwAnd, KwThen} : StartsWith(line, keyword)

\* the inner loop of lines 68-72 without its break: a call for every locator
\* whose identifier occurs in the line
RECURSIVE MatchLineNoBreak(_, _)
MatchLineNoBreak(locators, line) ==
    IF locators = <<>> THEN <<>>
    ELSE LET locator == Head(locators)
             identifier == StrReplace(locator.identifier, "_", " ")
         IN  IF Contains(StrLower(line), StrLower(identifier))
             THEN <<MapEntry(identifier, locator, line)>>
                  \o MatchLineNoBreak(Tail(locators), line)
             ELSE MatchLineNoBreak(Tail(locators), line)

\* lines 68-72: the add_locator call one step line leads to, if any
RECURSIVE MatchLine(_, _)
MatchLine(locators, line) ==
    IF locators = <<>> THEN <<>>
    ELSE LET locator == Head(locators)
             identifier == StrReplace(locator.identifier, "_", " ")
         IN  IF Contains(StrLower(line), StrLower(identifier))
             THEN <<MapEntry(identifier, locator, line)>>
             ELSE MatchLine(Tail(locators), line)

\* lines 65-72: the add_locator calls of the scan, in order
RECURSIVE ScanLines(_, _)
ScanLines(lines, locators) ==
    IF lines = <<>> THEN <<>>
    ELSE LET line == StripSpace(Head(lines))
         IN  (IF IsStepLine(line) THEN MatchLine(locators, line) ELSE <<>>)
             \o ScanLines(Tail(lines), locators)

\* One call of generate_gherkin(class_name, locators).  write_ok: the feature
\* file could be written (lines 75-81).
generate_gherkin_given(LocatorLists, Replies) ==
    /\ gh_pc = "start"
    /\ \E locators \in LocatorLists, reply \in Replies :
          /\ gh_locators' = locators
          /\ gh_response' = reply
          /\ IF reply.kind = "malformed"
             THEN /\ gh_pc' = "raised"
                  /\ UNCHANGED <<gh_content, gh_calls, gh_map, gh_file>>
             ELSE LET gherkin_content == query_ollama(reply)
                  IN  /\ gh_content' = gherkin_content
                      /\ IF Falsy(gherkin_content)
                         THEN /\ gh_pc' = "raised"
                              /\ UNCHANGED <<gh_calls, gh_map, gh_file>>
                         ELSE LET calls == ScanLines(SplitLines(gherkin_content.text),
                                                     locators)
                              IN  /\ gh_calls' = calls
                                  /\ gh_map' = AddAll(<<>>, calls)
                                  /\ \E write_ok \in BOOLEAN :
                                        /\ gh_file' = IF write_ok
                                                      THEN [written |-> TRUE,
                                                            content |-> gherkin_content.text]
                                                      ELSE NoFile
                                        /\ gh_pc' = IF write_ok THEN "returned"
                                                    ELSE WriteFailed

\* locators handed to generate_gherkin: records extract_locators can return
IdAB == <<"a", "_", "b">>
IdBUpper == <<"B">>
GhRecords == {Entry(TRUE, id, CatButton, "//a", "#a") : id \in {IdX, IdAB, IdBUpper}}
GhLocatorLists ==
    {l \in SeqsUpTo(GhRecords, Cardinality(GhRecords)) :
        \A i, j \in DOMAIN l : i # j => l[i] # l[j]}

\* lines of the texts the oracle answers with
LineGivenX == KwGiven \o <<"x">>
LineWhenAB == <<" ", " ">> \o KwWhen \o <<"a", " ", "b">>
LineThenA_B == KwThen \o <<"a", "_", "b">>
LineAndABX == KwAnd \o <<"A", " ", "B", " ", "x">>
LineWhenY == KwWhen \o <<"y", " ">>
LineGivenx == <<"G", "i", "v", "e", "n", "x">>
LineScenario == <<"S", "c", "e", "n", "a", "r", "i", "o", ":", " ", "X", " ", "y">>
LineBlank == <<>>
GhLines == {LineGivenX, LineWhenAB, LineThenA_B, LineAndABX, LineWhenY, LineGivenx,
            LineScenario, LineBlank}
\* "\n".join(lines)
RECURSIVE JoinLines(_)
JoinLines(lines) ==
    IF lines = <<>> THEN <<>>
    ELSE IF Len(lines) = 1 THEN lines[1]
    ELSE lines[1] \o <<"\n">> \o JoinLines(Tail(lines))
GhDocuments == {JoinLines(lines) : lines \in SeqsUpTo(GhLines, MaxDocLines)}
GhReplies ==
    {HttpFailed, HttpMalformed, HttpText(<<" ">>)} \cup {HttpText(text) : text \in GhDocuments}

generate_gherkin ==
    /\ generate_gherkin_given(GhLocatorLists, GhReplies)
    /\ UNCHANGED <<sanVars, exVars, pomVars, cvVars, orVars, jhVars>>

GherkinInit == SanIdle /\ ExIdle /\ PomIdle /\ GhIdle /\ CvIdle /\ OrIdle /\ JhIdle
GherkinNext == generate_gherkin
SpecGherkin == GherkinInit /\ [][GherkinNext]_vars

\* A free caller of LocatorMap: any add_locator call on the mapping so far
LmIdentifiers == {<<"x">>, <<"a", " ", "b">>}
LmElementInfos == {Entry(TRUE, id, CatButton, "//a", "#a") : id \in {IdX, IdAB}}
LmSteps == {LineGivenX, LineAndABX}
LocatorMapAddLocator ==
    /\ Len(gh_calls) < MaxAddCalls
    /\ \E identifier \in LmIdentifiers, element_info \in LmElementInfos,
          gherkin_step \in LmSteps :
          /\ gh_map' = add_locator(gh_map, identifier, element_info, gherkin_step)
          /\ gh_calls' = Append(gh_calls, MapEntry(identifier, element_info, gherkin_step))
    /\ UNCHANGED <<gh_locators, gh_response, gh_content, gh_file, gh_pc>>
    /\ UNCHANGED <<sanVars, exVars, pomVars, cvVars, orVars, jhVars>>

LocatorMapInit == SanIdle /\ ExIdle /\ PomIdle /\ GhIdle /\ CvIdle /\ OrIdle /\ JhIdle
LocatorMapNext == LocatorMapAddLocator
SpecLocatorMap == LocatorMapInit /\ [][LocatorMapNext]_vars

(***************************************************************************)
(* convert_gherkin_to_test                                                 *)
(***************************************************************************)
MaxReplySegments == 5   \* most segments in a text the oracle answers the test request with

ScenarioColon == <<"S", "c", "e", "n", "a", "r", "i", "o", ":">>
Step(current_scenario, line) == [scenario |-> current_scenario, line |-> line]

\* lines 80-86 with a title line leaving current_scenario as it was
RECURSIVE ParseStepsUntitled(_, _)
ParseStepsUntitled(lines, current_scenario) ==
    IF lines = <<>> THEN <<>>
    ELSE LET line == StripSpace(Head(lines))
         IN  IF ~StartsWith(line, ScenarioColon) /\ IsStepLine(line)
             THEN <<Step(current_scenario, line)>>
                      \o ParseStepsUntitled(Tail(lines), current_scenario)
             ELSE ParseStepsUntitled(Tail(lines), current_scenario)

\* lines 80-86: steps; current_scenario is None or a sanitized title
RECURSIVE ParseSteps(_, _)
ParseSteps(lines, current_scenario) ==
    IF lines = <<>> THEN <<>>
    ELSE LET line == StripSpace(Head(lines))
         IN  IF StartsWith(line, ScenarioColon)
             THEN LET title == StripSpace(SubSeq(line, Len(ScenarioColon) + 1, Len(line)))
                  IN  ParseSteps(Tail(lines),
                                 Str(sanitize_identifier_for_method_name(title, CatElement)))
             ELSE IF IsStepLine(line)
             THEN <<Step(current_scenario, line)>> \o ParseSteps(Tail(lines), current_scenario)
             ELSE ParseSteps(Tail(lines), current_scenario)

\* "U+0060" stands for the grave accent, the character of a Markdown fence
Fence == <<"U+0060", "U+0060", "U+0060">>
FencePython == Fence \o <<"p", "y", "t", "h", "o", "n">>

\* lines 142-150: test_content as it is handed to f.write
StripFences(test_content) ==
    IF StartsWith(StripSpace(test_content), FencePython)
    THEN LET first_newline == Index(test_content, <<"\n">>)
             last_fence == RIndex(test_content, Fence)
         IN  IF first_newline = -1 \/ last_fence = -1
             THEN test_content
             ELSE StripSpace(Slice(test_content, first_newline + 1, last_fence))
    ELSE test_content

\* One call of convert_gherkin_to_test(gherkin_content, class_name, url,
\* locator_map).  Without a locator_map line 58 raises NameError: the module
\* never imports webdriver.  write_ok: the test file could be written.
convert_gherkin_to_test_given(Contents, LocatorMaps, Replies) ==
    /\ cv_pc = "start"
    /\ \E gherkin_content \in Contents, locator_map \in LocatorMaps :
          /\ cv_gherkin_content' = gherkin_content
          /\ cv_locator_map' = locator_map
          /\ IF ~locator_map
             THEN /\ cv_pc' = "raised"
                  /\ UNCHANGED <<cv_steps, cv_requests, cv_response, cv_test_content, cv_file>>
             ELSE LET steps == ParseSteps(SplitLines(gherkin_content), None)
                  IN  /\ cv_steps' = steps
                      /\ IF steps = <<>>
                         THEN /\ cv_pc' = "failed"
                              /\ UNCHANGED <<cv_requests, cv_response, cv_test_content,
                                             cv_file>>
                         ELSE \E reply \in Replies :
                                 /\ cv_requests' = cv_requests + 1
                                 /\ cv_response' = reply
                                 /\ IF reply.kind = "malformed" \/ Falsy(query_ollama(reply))
                                    THEN /\ cv_pc' = "raised"
                                         /\ UNCHANGED <<cv_test_content, cv_file>>
                                    ELSE LET test_content ==
                                                 StripFences(query_ollama(reply).text)
                                         IN  /\ cv_test_content' = test_content
                                             /\ \E write_ok \in BOOLEAN :
                                                   /\ cv_file' =
                                                         IF write_ok
                                                         THEN [written |-> TRUE,
                                                               content |-> test_content]
                                                         ELSE NoFile
                                                   /\ cv_pc' = IF write_ok THEN "returned"
                                                               ELSE WriteFailed

\* texts the oracle answers the test request with: runs of fences, line
\* breaks, blanks and code
ReplySegments == {FencePython, Fence, <<"\n">>, <<" ">>, <<"x">>}
RECURSIVE Concat(_)
Concat(segments) == IF segments = <<>> THEN <<>> ELSE Head(segments) \o Concat(Tail(segments))
FenceReplies ==
    {HttpText(Concat(segments)) : segments \in SeqsUpTo(ReplySegments, MaxReplySegments)}
PlainReplies == {HttpFailed, HttpMalformed, HttpText(<<" ">>), HttpText(<<"x">>)}

\* any document, with or without a locator_map
ConvertDocument ==
    /\ convert_gherkin_to_test_given(GhDocuments, BOOLEAN, PlainReplies)
    /\ UNCHANGED <<sanVars, exVars, pomVars, ghVars, orVars, jhVars>>
\* one document with a step, any answer of the oracle
ConvertReply ==
    /\ convert_gherkin_to_test_given({LineGivenX}, {TRUE}, FenceReplies)
    /\ UNCHANGED <<sanVars, exVars, pomVars, ghVars, orVars, jhVars>>

\* documents of several scenarios, answered with code
MaxScenarioLines == 4   \* most lines in a document of several scenarios
LineScenarioZ == ScenarioColon \o <<"Z", "!">>
ScenarioLines == {LineGivenX, LineWhenAB, LineScenario, LineScenarioZ, LineGivenx}
ScenarioDocuments ==
    {JoinLines(lines) : lines \in SeqsUpTo(ScenarioLines, MaxScenarioLines)}
ConvertScenarios ==
    /\ convert_gherkin_to_test_given(ScenarioDocuments, {TRUE}, {HttpText(<<"x">>)})
    /\ UNCHANGED <<sanVars, exVars, pomVars, ghVars, orVars, jhVars>>

ConvertInit == SanIdle /\ ExIdle /\ PomIdle /\ GhIdle /\ CvIdle /\ OrIdle /\ JhIdle
ConvertNext == ConvertDocument \/ ConvertReply \/ ConvertScenarios
SpecConvert == ConvertInit /\ [][ConvertNext]_vars

(***************************************************************************)
(* process_url_and_gherkin.  Each action is one stage call together with   *)
(* what the orchestrator does with its result.  generate_pom is imported   *)
(* from pom_generator_refactored; the sources hold it as                   *)
(* Backupcodes/pom_generator_backup.py.                                    *)
(***************************************************************************)
PipeEntries ==
    {Entry(TRUE, IdX, CatButton, "//a", "#a"), Entry(TRUE, IdX, CatButton, "//a", ""),
     Entry(TRUE, <<>>, CatButton, "//a", "#a")}
PipeOracleResults == {JsonNone} \cup {JsonList(<<entry>>) : entry \in PipeEntries}
PipeScenarioReplies == {HttpFailed, HttpText(LineGivenX), HttpText(LineScenario)}
PipeProvidedDocuments == {LineGivenX, LineScenario}
PipeTestReplies == {HttpFailed, HttpText(<<"x">>)}

\* lines 288-290 left out: the exception of a stage leaves the function
ExceptNothing == "raised"

\* lines 288-290: `except Exception` logs the exception of a stage and the
\* function goes on to its finally block
ExceptException == "finally"

\* the abort of lines 190-193 with the return left out
QuitAndGoOn ==
    /\ or_driver' = "quit"
    /\ or_quits' = or_quits + 1
    /\ or_pc' = "document"

\* the abort of lines 190-193, 208-211, 220-223 and 229-232
QuitAndReturn ==
    /\ or_driver' = "quit"
    /\ or_quits' = or_quits + 1
    /\ or_pc' = "finally"

\* lines 123-171: up to the creation of the driver
OrStart ==
    /\ or_pc = "start"
    /\ \E gherkin_file \in BOOLEAN, created \in BOOLEAN :
          /\ or_gherkin_file' = gherkin_file
          /\ or_driver' = IF created THEN "open" ELSE "none"
          /\ or_pc' = IF created THEN "session" ELSE "returned"
    /\ UNCHANGED <<or_quits, or_gherkin_content, or_locator_map, or_stages, or_tests>>
    /\ UNCHANGED <<sanVars, exVars, pomVars, ghVars, cvVars, jhVars>>

\* lines 174-181: driver.get(url) loads the page or raises
OrNavigate ==
    /\ or_pc = "session"
    /\ \E loaded \in BOOLEAN : or_pc' = IF loaded THEN "navigated" ELSE ExceptException
    /\ UNCHANGED <<or_driver, or_quits, or_gherkin_file, or_gherkin_content, or_locator_map,
                   or_stages, or_tests>>
    /\ UNCHANGED <<sanVars, exVars, pomVars, ghVars, cvVars, jhVars>>

\* lines 183-185
OrExtract ==
    /\ or_pc = "navigated"
    /\ extract_locators_given(PipeOracleResults)
    /\ or_stages' = Append(or_stages, "extraction")
    /\ or_pc' = IF ex_pc' = "returned" THEN "extracted" ELSE ExceptException
    /\ UNCHANGED <<or_driver, or_quits, or_gherkin_file, or_gherkin_content, or_locator_map,
                   or_tests>>
    /\ UNCHANGED <<sanVars, pomVars, ghVars, cvVars, jhVars>>

\* lines 187-195
OrPom ==
    /\ or_pc = "extracted"
    /\ generate_pom_given(PipeOracleResults)
    /\ or_stages' = Append(or_stages, "accessors")
    /\ IF pom_pc' = "failed" THEN QuitAndReturn
       ELSE /\ or_pc' = IF pom_pc' = "returned" THEN "pom_done" ELSE ExceptException
            /\ UNCHANGED <<or_driver, or_quits>>
    /\ UNCHANGED <<or_gherkin_file, or_gherkin_content, or_locator_map, or_tests>>
    /\ UNCHANGED <<sanVars, exVars, ghVars, cvVars, jhVars>>

\* line 198 with the test always failing
UseProvidedDocumentNever == FALSE

\* line 198: gherkin_file and os.path.exists(gherkin_file)
UseProvidedDocument == or_gherkin_file

\* lines 198-203: the provided feature file is read, or open/read raises
OrLoadDocument ==
    /\ or_pc = "pom_done"
    /\ UseProvidedDocument
    /\ or_stages' = Append(or_stages, "document")
    /\ \/ /\ \E gherkin_content \in PipeProvidedDocuments :
                or_gherkin_content' = gherkin_content
          /\ or_locator_map' = FALSE
          /\ or_pc' = "document"
       \/ /\ or_pc' = ExceptException
          /\ UNCHANGED <<or_gherkin_content, or_locator_map>>
    /\ UNCHANGED <<or_driver, or_quits, or_gherkin_file, or_tests>>
    /\ UNCHANGED <<sanVars, exVars, pomVars, ghVars, cvVars, jhVars>>

\* lines 204-215: generate_gherkin on the locators of extract_locators
OrGherkin ==
    /\ or_pc = "pom_done"
    /\ ~UseProvidedDocument
    /\ generate_gherkin_given({ex_unique_locators}, PipeScenarioReplies)
    /\ or_stages' = Append(or_stages, "scenario")
    /\ IF gh_pc' = "returned"
       THEN /\ or_gherkin_content' = gh_file'.content
            /\ or_locator_map' = TRUE
            /\ or_pc' = "document"
            /\ UNCHANGED <<or_driver, or_quits>>
       ELSE /\ IF gh_pc' = "failed" THEN QuitAndReturn
               ELSE or_pc' = ExceptException /\ UNCHANGED <<or_driver, or_quits>>
            /\ UNCHANGED <<or_gherkin_content, or_locator_map>>
    /\ UNCHANGED <<or_gherkin_file, or_tests>>
    /\ UNCHANGED <<sanVars, exVars, pomVars, cvVars, jhVars>>

\* lines 217-225
OrConvert ==
    /\ or_pc = "document"
    /\ convert_gherkin_to_test_given({or_gherkin_content}, {or_locator_map}, PipeTestReplies)
    /\ or_stages' = Append(or_stages, "tests")
    /\ IF cv_pc' = "failed" THEN QuitAndReturn
       ELSE /\ or_pc' = IF cv_pc' = "returned" THEN "test_done" ELSE ExceptException
            /\ UNCHANGED <<or_driver, or_quits>>
    /\ UNCHANGED <<or_gherkin_file, or_gherkin_content, or_locator_map, or_tests>>
    /\ UNCHANGED <<sanVars, exVars, pomVars, ghVars, jhVars>>

\* lines 227-232: validate_test_file compiles the test file, reports a
\* syntax error, or py_compile raises another exception
OrValidate ==
    /\ or_pc = "test_done"
    /\ or_stages' = Append(or_stages, "validation")
    /\ \E outcome \in {"compiled", "syntax_error", "raised"} :
          IF outcome = "syntax_error" THEN QuitAndReturn
          ELSE /\ or_pc' = IF outcome = "compiled" THEN "validated" ELSE ExceptException
               /\ UNCHANGED <<or_driver, or_quits>>
    /\ UNCHANGED <<or_gherkin_file, or_gherkin_content, or_locator_map, or_tests>>
    /\ UNCHANGED <<sanVars, exVars, pomVars, ghVars, cvVars, jhVars>>

\* lines 234-286: pytest passes, fails (CalledProcessError) or cannot be run
OrRunTests ==
    /\ or_pc = "validated"
    /\ or_stages' = Append(or_stages, "execution")
    /\ \E outcome \in {"passed", "failed", "error"} : or_tests' = outcome
    /\ or_pc' = "finally"
    /\ UNCHANGED <<or_driver, or_quits, or_gherkin_file, or_gherkin_content, or_locator_map>>
    /\ UNCHANGED <<sanVars, exVars, pomVars, ghVars, cvVars, jhVars>>

\* lines 291-294 with driver.quit() left out
OrFinallyWithoutQuit ==
    /\ or_pc = "finally"
    /\ or_pc' = "returned"
    /\ UNCHANGED <<or_driver, or_quits, or_gherkin_file, or_gherkin_content, or_locator_map,
                   or_stages, or_tests>>
    /\ UNCHANGED <<sanVars, exVars, pomVars, ghVars, cvVars, jhVars>>

\* lines 288-294: finally: driver.quit()
OrFinally ==
    /\ or_pc = "finally"
    /\ or_driver' = "quit"
    /\ or_quits' = or_quits + 1
    /\ or_pc' = "returned"
    /\ UNCHANGED <<or_gherkin_file, or_gherkin_content, or_locator_map, or_stages, or_tests>>
    /\ UNCHANGED <<sanVars, exVars, pomVars, ghVars, cvVars, jhVars>>

PipelineInit == SanIdle /\ ExIdle /\ PomIdle /\ GhIdle /\ CvIdle /\ OrIdle /\ JhIdle
PipelineNext ==
    \/ OrStart \/ OrNavigate \/ OrExtract \/ OrPom \/ OrLoadDocument \/ OrGherkin
    \/ OrConvert \/ OrValidate \/ OrRunTests \/ OrFinally
SpecPipeline == PipelineInit /\ [][PipelineNext]_vars

\* the function is sequential code: the statement that can run does run
SpecPipelineFair == SpecPipeline /\ WF_vars(PipelineNext)

(***************************************************************************)
(* Properties of the sanitizer                                             *)
(***************************************************************************)
HasDoubleUnderscore(s) == \E i \in 1..(Len(s) - 1) : s[i] = "_" /\ s[i + 1] = "_"

\* C1: sanitize(sanitize(s, c), c) = sanitize(s, c) for every string s and
\* every fallback category c.
C1_SanitizerIdempotent ==
    san_pc = "twice" => sane_again = sane_name

\* C2: for every input and fallback category the sanitizer returns a non-empty
\* string over [a-z0-9_] that does not start with a digit and neither starts
\* nor ends with an underscore, except for the one leading underscore put
\* before a leading digit.
C2_SanitizerOutputFormat ==
    san_pc # "start" =>
        /\ sane_name # <<>>
        /\ \A i \in DOMAIN sane_name :
              sane_name[i] \in AsciiLower \cup AsciiDigit \cup {"_"}
        /\ ~IsDigit(sane_name[1])
        /\ sane_name[Len(sane_name)] # "_"
        /\ sane_name[1] = "_" => (Len(sane_name) >= 2 /\ IsDigit(sane_name[2]))

\* The reference definition as C3 words it: every maximal run of
\* non-alphanumeric characters, underscores included, becomes one underscore.
IsAlnum(c) == IsWordChar(c) /\ c # "_"
RECURSIVE SkipNonAlnum(_)
SkipNonAlnum(s) ==
    IF s = <<>> \/ IsAlnum(Head(s)) THEN s ELSE SkipNonAlnum(Tail(s))
RECURSIVE CollapseNonAlnum(_)
CollapseNonAlnum(s) ==
    IF s = <<>> THEN <<>>
    ELSE IF IsAlnum(Head(s)) THEN <<Head(s)>> \o CollapseNonAlnum(Tail(s))
    ELSE <<"_">> \o CollapseNonAlnum(SkipNonAlnum(Tail(s)))
ReferenceSanitize(raw, category) ==
    LET stripped == Strip(CollapseNonAlnum(StrLower(raw)), "_")
    IN  IF stripped = <<>> THEN FallbackName(category)
        ELSE IF IsDigit(stripped[1]) THEN <<"_">> \o stripped ELSE stripped

\* C3 (as stated): the result equals the reference definition that collapses
\* every run of non-alphanumeric characters, underscores included, so the
\* output never holds two consecutive underscores.
C3_EqualsReferenceCollapsingUnderscores ==
    san_pc # "start" =>
        /\ sane_name = ReferenceSanitize(raw_identifier_str, category_for_fallback)
        /\ ~HasDoubleUnderscore(sane_name)

\* The amended reference, stated position by position instead of by scanning:
\* a character of the lower-cased input is kept if it is a word character
\* (letter, digit or underscore); a non-word character is kept, as an
\* underscore, only where it starts a run of non-word characters.
KeptPositions(low) ==
    {i \in DOMAIN low : IsWordChar(low[i]) \/ i = 1 \/ IsWordChar(low[i - 1])}
\* the elements of a set of naturals in increasing order
RECURSIVE SortedSeq(_)
SortedSeq(S) ==
    IF S = {} THEN <<>>
    ELSE LET m == CHOOSE x \in S : \A y \in S : x <= y
         IN  <<m>> \o SortedSeq(S \ {m})
WordRunReference(raw, category) ==
    LET low == StrLower(raw)
        idx == SortedSeq(KeptPositions(low))
        collapsed == [k \in DOMAIN idx |->
                         IF IsWordChar(low[idx[k]]) THEN low[idx[k]] ELSE "_"]
        inner == {k \in DOMAIN collapsed : collapsed[k] # "_"}
        stripped == IF inner = {} THEN <<>>
                    ELSE LET first == CHOOSE k \in inner : \A j \in inner : k <= j
                             last == CHOOSE k \in inner : \A j \in inner : j <= k
                         IN  SubSeq(collapsed, first, last)
        named == IF stripped = <<>> THEN FallbackName(category) ELSE stripped
    IN  IF IsDigit(named[1]) THEN <<"_">> \o named ELSE named

\* C3 (amended): the result is the lower-cased input with every maximal run
\* of non-word characters replaced by one underscore, the input's own
\* underscores kept as they are, leading and trailing underscores stripped,
\* unnamed_<category lower-cased, spaces as underscores> when nothing is left,
\* and an underscore put before a leading digit.
C3_EqualsWordRunReference ==
    san_pc # "start" =>
        sane_name = WordRunReference(raw_identifier_str, category_for_fallback)

\* C3 witness: an input underscore next to a replaced run survives, and the
\* output holds two consecutive underscores.
C3_Witness ==
    /\ san_pc = "once"
    /\ raw_identifier_str = <<"a", "_", "-", "B">>
    /\ sane_name = <<"a", "_", "_", "b">>

(***************************************************************************)
(* Properties of the two stages                                            *)
(***************************************************************************)
PomDone == pom_pc \in {"returned", "failed"}
ExDone == ex_pc = "returned"
IsNonEmptyList(locators) == locators.kind = "list" /\ locators.items # <<>>

\* C4: the full names of the accessor methods emitted into one page-object
\* (verb prefix plus resolved name part) are pairwise distinct.
C4_MethodNamesDistinct ==
    PomDone =>
        \A i, j \in DOMAIN pom_methods :
            i # j => pom_methods[i].name # pom_methods[j].name

\* C5: the name part of a kept record is its sanitized name if no earlier
\* record of the page took that name, otherwise the sanitized name suffixed
\* _k for the smallest k >= 1 not yet taken; the name parts of one page are
\* pairwise distinct.
C5_CollisionResolution ==
    PomDone =>
        /\ Len(pom_parts) = Len(pom_unique_locators)
        /\ \A k \in DOMAIN pom_parts :
              LET base == sanitize_identifier_for_method_name(
                              pom_unique_locators[k].identifier,
                              pom_unique_locators[k].category)
                  taken == {pom_parts[j] : j \in 1..(k - 1)}
                  Suffixed(m) == base \o <<"_">> \o IntToStr(m)
              IN  IF base \notin taken
                  THEN pom_parts[k] = base
                  ELSE \E m \in 1..k :
                          /\ pom_parts[k] = Suffixed(m)
                          /\ Suffixed(m) \notin taken
                          /\ \A n \in 1..(m - 1) : Suffixed(n) \in taken
        /\ \A i, j \in DOMAIN pom_parts : i # j => pom_parts[i] # pom_parts[j]

\* C5 witness: x_1, x and X! are kept in this order; X! sanitizes to x, which
\* is taken, and so is x_1: its name part is x_2.
C5_Witness ==
    /\ PomDone
    /\ Len(pom_unique_locators) = 3
    /\ pom_unique_locators[2].identifier = IdX
    /\ pom_unique_locators[3].identifier = IdXBang
    /\ pom_parts = <<IdX1, IdX, <<"x", "_", "2">>>>

\* the entries of a list that are objects carrying the identifier id
WithIdentifier(items, id) == {i \in DOMAIN items : items[i].is_dict /\ items[i].identifier = id}
\* unique is items restricted to an increasing choice of positions
IsSubsequence(unique, items) ==
    \E pos \in [DOMAIN unique -> DOMAIN items] :
        /\ \A a, b \in DOMAIN unique : a < b => pos[a] < pos[b]
        /\ \A a \in DOMAIN unique : unique[a] = items[pos[a]]
FirstSeenWins(items, unique) ==
    /\ \A a, b \in DOMAIN unique : a # b => unique[a].identifier # unique[b].identifier
    /\ \A a \in DOMAIN unique :
          \E i \in WithIdentifier(items, unique[a].identifier) :
              /\ \A j \in WithIdentifier(items, unique[a].identifier) : i <= j
              /\ unique[a] = items[i]
    /\ IsSubsequence(unique, items)
    /\ (/\ Len(items) = 2
        /\ items[1].is_dict /\ items[2].is_dict
        /\ items[1].identifier = IdX /\ items[2].identifier = IdX
        /\ items[1].xpath = "//a" /\ items[2].xpath = "//b")
       => unique = <<items[1]>>

\* C6: the accepted list holds at most one record per identifier, the record
\* accepted for an identifier is the first record of the input with that
\* identifier, accepted records keep the input order, and two records x with
\* xpaths //a then //b yield exactly the first.
C6_FirstSeenWins ==
    /\ ExDone => FirstSeenWins(ex_locators.items, ex_unique_locators)
    /\ PomDone => FirstSeenWins(pom_locators.items, pom_unique_locators)

Usable(record) ==
    /\ record.is_dict
    /\ record.identifier # <<>>
    /\ record.xpath # "" \/ record.css_selector # ""

\* C7: every record accepted by the validation step of either stage has a
\* non-empty identifier and a non-empty xpath or css_selector.
C7_AcceptedAreUsable ==
    /\ ExDone => \A a \in DOMAIN ex_unique_locators : Usable(ex_unique_locators[a])
    /\ PomDone => \A a \in DOMAIN pom_unique_locators : Usable(pom_unique_locators[a])

\* C7 witness: generate_pom was offered a named record with neither locator
\* next to a usable one, and kept the usable one only.
C7_Witness ==
    /\ PomDone
    /\ \E i \in DOMAIN pom_locators.items :
          /\ pom_locators.items[i].identifier = IdX
          /\ pom_locators.items[i].xpath = ""
          /\ pom_locators.items[i].css_selector = ""
    /\ Len(pom_unique_locators) = 1
    /\ pom_unique_locators[1].xpath = ""
    /\ pom_unique_locators[1].css_selector = "#a"

\* C8: extract_locators accepts a record with a non-empty identifier not seen
\* before and exactly one of xpath / css_selector non-empty.
C8_OneLocatorSuffices ==
    ExDone =>
        \A i \in DOMAIN ex_locators.items :
            LET locator == ex_locators.items[i]
            IN  (/\ locator.is_dict
                 /\ locator.identifier # <<>>
                 /\ \A j \in 1..(i - 1) : ex_locators.items[j].identifier # locator.identifier
                 /\ (locator.xpath = "") # (locator.css_selector = ""))
                => \E a \in DOMAIN ex_unique_locators : ex_unique_locators[a] = locator

\* C9: an entry of the oracle's list that is no object is dropped by the
\* validation of extract_locators and does not make the stage fail.
C9_NonObjectEntryDropped ==
    (ex_pc # "start" /\ IsNonEmptyList(ex_locators)) =>
        /\ ex_pc = "returned"
        /\ \A a \in DOMAIN ex_unique_locators : ex_unique_locators[a].is_dict

\* C10: when the oracle helper yields nothing parseable, a value that is no
\* list, or an empty list, extract_locators raises, returns no list and
\* writes no locator file.
C10_RejectedOracleResultRaises ==
    (/\ ex_pc # "start"
     /\ \/ ex_locators.kind \in {"none", "non_list"}
        \/ ex_locators.items = <<>>)
    => /\ ex_pc = "raised"
       /\ ex_unique_locators = <<>>
       /\ ~ex_file.written

\* C10 witness: the oracle helper yielded the empty list and the stage raised.
C10_Witness ==
    /\ ex_pc = "raised"
    /\ ex_locators = JsonList(<<>>)

\* C12: whenever extract_locators returns a record list, the locator file has
\* been written and holds exactly the returned list.
C12_ReturnedListIsPersisted ==
    ExDone => (ex_file.written /\ ex_file.content = ex_unique_locators)

\* C15: generate_pom returns the path of the page-object only when at least one
\* usable record remains after validation.
C15_PathOnlyWithUsableRecords ==
    pom_pc = "returned" => pom_unique_locators # <<>>

(***************************************************************************)
(* Properties of the method templates of generate_pom                      *)
(***************************************************************************)
RecognizedCategories == {CatInputField, CatButton, CatCheckbox, CatDropdown, CatRadio}
AccessorVerbs == {VerbEnter, VerbClick, VerbCheck, VerbSelectOptionFrom, VerbSelect}
\* positions, in record order, of the kept records an accessor is due for
AccessorPositions(unique_locators) ==
    SelectSeq([i \in 1..Len(unique_locators) |-> i],
              LAMBDA i : /\ unique_locators[i].xpath # ""
                         /\ unique_locators[i].category \in RecognizedCategories)
UsernameField == Entry(TRUE, IdUsername, CatInputField, "//a", "#a")
SubmitButton == Entry(TRUE, IdSubmit, CatButton, "//a", "#a")

\* C13: the page-object holds exactly one accessor for each kept record with a
\* non-empty xpath and a recognized category, in record order, and no other;
\* a record with an empty xpath or another category gets none and does not
\* fail the stage; username/input_field then submit/button give exactly
\* enter_username(value) and click_submit().
C13_OneAccessorPerEligibleRecord ==
    /\ PomDone =>
          LET positions == AccessorPositions(pom_unique_locators)
          IN  /\ Len(pom_methods) = Len(positions)
              /\ \A j \in DOMAIN positions :
                    \E verb \in AccessorVerbs :
                       pom_methods[j].name = verb \o pom_parts[positions[j]]
    /\ pom_pc = "raised" => OracleResultRejected(pom_locators)
    /\ (PomDone /\ pom_locators = JsonList(<<UsernameField, SubmitButton>>)) =>
          pom_methods = <<Method(VerbEnter \o IdUsername, "value", FALSE),
                          Method(VerbClick \o IdSubmit, "", FALSE)>>

\* two records are kept, the first without xpath, the second with an
\* unrecognized category or an accessor of its own
C13_Witness ==
    /\ pom_pc = "returned"
    /\ Len(pom_unique_locators) = 2
    /\ pom_unique_locators[1].xpath = ""
    /\ pom_unique_locators[2].xpath # ""
    /\ Len(pom_methods) = 1

\* C14: input_field gives enter_<name>(value); button click_<name>() without
\* parameter; checkbox check_<name>() clicking only when not selected;
\* dropdown select_option_from_<name>(option_text); radio select_<name>()
\* clicking only when not selected.
C14_CategoryShapes ==
    PomDone =>
        LET positions == AccessorPositions(pom_unique_locators)
        IN  \A j \in DOMAIN positions :
               j \in DOMAIN pom_methods =>
                  LET category == pom_unique_locators[positions[j]].category
                      name == pom_parts[positions[j]]
                      method == pom_methods[j]
                  IN  /\ category = CatInputField =>
                            method = [name |-> <<"e", "n", "t", "e", "r", "_">> \o name,
                                      parameter |-> "value", guarded |-> FALSE]
                      /\ category = CatButton =>
                            method = [name |-> <<"c", "l", "i", "c", "k", "_">> \o name,
                                      parameter |-> "", guarded |-> FALSE]
                      /\ category = CatCheckbox =>
                            method = [name |-> <<"c", "h", "e", "c", "k", "_">> \o name,
                                      parameter |-> "", guarded |-> TRUE]
                      /\ category = CatDropdown =>
                            method = [name |-> VerbSelectOptionFrom \o name,
                                      parameter |-> "option_text", guarded |-> FALSE]
                      /\ category = CatRadio =>
                            method = [name |-> <<"s", "e", "l", "e", "c", "t", "_">> \o name,
                                      parameter |-> "", guarded |-> TRUE]

C14_Witness ==
    /\ pom_pc = "returned"
    /\ Len(pom_methods) = 2
    /\ pom_unique_locators[1].category = CatRadio
    /\ pom_methods[1].guarded
    /\ pom_unique_locators[2].category = CatDropdown
    /\ pom_methods[2].parameter = "option_text"

(***************************************************************************)
(* Properties of generate_gherkin and LocatorMap                           *)
(***************************************************************************)
GherkinDone == gh_pc \in {"returned", "failed"}
SpokenIdentifier(locator) == StrReplace(locator.identifier, "_", " ")
OccursIn(locator, line) == Contains(StrLower(line), StrLower(SpokenIdentifier(locator)))
\* what one line of the document is to add: nothing, or one entry for the
\* record of least position whose identifier occurs in the trimmed line
ExpectedEntries(line, locators) ==
    LET trimmed == StripSpace(line)
    IN  IF ~IsStepLine(trimmed) THEN <<>>
        ELSE LET matching == {k \in DOMAIN locators : OccursIn(locators[k], trimmed)}
             IN  IF matching = {} THEN <<>>
                 ELSE LET first == CHOOSE k \in matching : \A m \in matching : k <= m
                      IN  <<MapEntry(SpokenIdentifier(locators[first]), locators[first],
                                     trimmed)>>
RECURSIVE ExpectedCalls(_, _)
ExpectedCalls(lines, locators) ==
    IF lines = <<>> THEN <<>>
    ELSE ExpectedEntries(Head(lines), locators) \o ExpectedCalls(Tail(lines), locators)

\* C16: for each line that, trimmed, starts with a step keyword, one entry is
\* recorded for the first record in record order whose identifier, with
\* underscores replaced by spaces, occurs case-insensitively in the line, and
\* for no other record; other lines add nothing.
C16_FirstMatchingRecordPerStepLine ==
    GherkinDone =>
        gh_calls = ExpectedCalls(SplitLines(gh_content.text), gh_locators)

\* a step line naming all three records, a step line naming none and a line
\* that is no step: one entry, for the first record of the list
C16_Witness ==
    /\ gh_pc = "returned"
    /\ SplitLines(gh_content.text) = <<LineAndABX, LineWhenY, LineScenario>>
    /\ Len(gh_locators) = 3
    /\ gh_locators[1].identifier = IdBUpper
    /\ Len(gh_calls) = 1
    /\ gh_calls[1].element_info = gh_locators[1]

\* C17: after any sequence of add_locator calls the mapping holds one entry
\* per identifier added, and that entry is the record and step line of the
\* last call made for the identifier.
C17_OneEntryPerIdentifierLastWins ==
    /\ \A i, j \in DOMAIN gh_map : i # j => gh_map[i].identifier # gh_map[j].identifier
    /\ {gh_map[i].identifier : i \in DOMAIN gh_map}
          = {gh_calls[k].identifier : k \in DOMAIN gh_calls}
    /\ \A i \in DOMAIN gh_map :
          LET same == {k \in DOMAIN gh_calls : gh_calls[k].identifier = gh_map[i].identifier}
              last == CHOOSE k \in same : \A m \in same : k >= m
          IN  gh_map[i] = gh_calls[last]

\* an identifier added twice with different records and step lines, another
\* identifier added in between
C17_Witness ==
    /\ Len(gh_calls) = 3
    /\ gh_calls[1].identifier = gh_calls[3].identifier
    /\ gh_calls[1].identifier # gh_calls[2].identifier
    /\ gh_calls[1].element_info # gh_calls[3].element_info
    /\ gh_calls[1].gherkin_step # gh_calls[3].gherkin_step
    /\ Len(gh_map) = 2

\* C18: when the request fails or the response is absent, empty or white
\* space only, generate_gherkin fails with an error and writes no feature
\* file; a feature file that is written holds the response text unchanged.
C18_NoScenarioWithoutResponse ==
    /\ (gh_pc # "start"
          /\ (gh_response.kind # "text" \/ StripSpace(gh_response.text) = <<>>))
       => (gh_pc = "raised" /\ gh_file = NoFile)
    /\ gh_file.written => gh_file.content = gh_response.text

\* a response of white space only
C18_Witness ==
    /\ gh_pc = "raised"
    /\ gh_response.kind = "text"
    /\ gh_response.text # <<>>

(***************************************************************************)
(* Properties of convert_gherkin_to_test                                   *)
(***************************************************************************)
NoStepLine(gherkin_content) ==
    \A line \in Range(SplitLines(gherkin_content)) : ~IsStepLine(StripSpace(line))

\* C19: when the document has no line starting with a step keyword,
\* convert_gherkin_to_test returns a failure result, has issued no oracle
\* request and has written no test file.
C19_NoStepsFailsBeforeOracle ==
    (cv_pc # "start" /\ NoStepLine(cv_gherkin_content)) =>
        (cv_pc = "failed" /\ cv_requests = 0 /\ cv_file = NoFile)

\* the same, for the calls that are handed a locator_map
C19_WithLocatorMap ==
    (cv_pc # "start" /\ cv_locator_map /\ NoStepLine(cv_gherkin_content)) =>
        (cv_pc = "failed" /\ cv_requests = 0 /\ cv_file = NoFile)

\* the text after the line of the opening fence
AfterOpenerLine(text) == SubSeq(text, Index(text, <<"\n">>) + 2, Len(text))
\* the response is one fenced block: it begins with a fence, the opener line
\* ends, and a fence follows
IsFencedBlock(text) ==
    /\ StartsWith(text, Fence)
    /\ Contains(text, <<"\n">>)
    /\ Contains(AfterOpenerLine(text), Fence)
\* the text between the opener line and the next fence
Enclosed(text) == SubSeq(AfterOpenerLine(text), 1, Index(AfterOpenerLine(text), Fence))

\* C20: a response that begins with an opening fence and has a matching
\* closing fence is written as the text between the two, without either
\* marker (surrounding white space aside); a response without any fence is
\* written unchanged.
C20_FenceStripping ==
    cv_pc = "returned" =>
        /\ IsFencedBlock(cv_response.text) =>
              StripSpace(cv_file.content) = StripSpace(Enclosed(cv_response.text))
        /\ ~Contains(cv_response.text, Fence) => cv_file.content = cv_response.text

\* the same, for responses whose only fences are a python opener at the
\* very start and one closing fence
C20_PythonFenceOnly ==
    cv_pc = "returned" =>
        /\ (/\ IsFencedBlock(cv_response.text)
            /\ StartsWith(cv_response.text, FencePython)
            /\ Cardinality(Occurrences(cv_response.text, Fence)) = 2) =>
              StripSpace(cv_file.content) = StripSpace(Enclosed(cv_response.text))
        /\ ~Contains(cv_response.text, Fence) => cv_file.content = cv_response.text

(***************************************************************************)
(* Properties of process_url_and_gherkin                                   *)
(***************************************************************************)
\* C11: whenever the orchestrator has started a stage after the extraction
\* (accessors, scenario, tests), the list extract_locators returned holds at
\* least one usable record.
C11_NoLaterStageWithoutRecords ==
    (\E i \in DOMAIN or_stages : or_stages[i] # "extraction") =>
        \E k \in DOMAIN ex_unique_locators : Usable(ex_unique_locators[k])

\* the response opens with a fence whose block cannot be located: no line
\* break follows the opener, or no fence follows the opener line
FenceNotLocatable(text) ==
    /\ StartsWith(text, Fence)
    /\ \/ ~Contains(text, <<"\n">>)
       \/ ~Contains(AfterOpenerLine(text), Fence)

\* C21: a response that opens with a fence marker but has no closing marker
\* after the opener, or no line break after the opener, is written to the
\* test file unmodified, never empty or truncated.
C21_UnlocatableFencePassesThrough ==
    (cv_pc = "returned" /\ FenceNotLocatable(cv_response.text)) =>
        cv_file.content = cv_response.text

\* the same, for the responses without any line break
C21_NoLineBreak ==
    (cv_pc = "returned" /\ StartsWith(cv_response.text, Fence)
        /\ ~Contains(cv_response.text, <<"\n">>)) =>
        cv_file.content = cv_response.text

(***************************************************************************)
(* generate_json_with_ollama.  json.loads is computed over the characters  *)
(* [ ] , 1 and the space: a value is a number (digits 1) or a list of      *)
(* values; white space may surround any token.  A parsed list keeps one    *)
(* entry per item; an item that is no JSON object is NonDictEntry.  The    *)
(* response texts enumerated are too short to hold a comma between items.  *)
(***************************************************************************)
MaxJsonLen == 3     \* longest response text the oracle gives to the helper
max_retries == 3

JsonAlphabet == {"[", "]", "1", " "}

ParseFail == [ok |-> FALSE, next |-> 0, value |-> JsonNone]
ParseOk(next, value) == [ok |-> TRUE, next |-> next, value |-> value]

RECURSIVE SkipWs(_, _)
SkipWs(s, i) ==
    IF i <= Len(s) /\ s[i] \in WhiteSpace THEN SkipWs(s, i + 1) ELSE i

RECURSIVE SkipDigits(_, _)
SkipDigits(s, i) ==
    IF i <= Len(s) /\ s[i] = "1" THEN SkipDigits(s, i + 1) ELSE i

RECURSIVE ParseValue(_, _)
RECURSIVE ParseItems(_, _, _)
ParseValue(s, i) ==
    IF i > Len(s) THEN ParseFail
    ELSE IF s[i] = "1" THEN ParseOk(SkipDigits(s, i), JsonNonList)
    ELSE IF s[i] = "["
         THEN LET j == SkipWs(s, i + 1)
              IN  IF j <= Len(s) /\ s[j] = "]" THEN ParseOk(j + 1, JsonList(<<>>))
                  ELSE ParseItems(s, j, <<>>)
    ELSE ParseFail

ParseItems(s, i, items) ==
    LET v == ParseValue(s, i)
    IN  IF ~v.ok THEN ParseFail
        ELSE LET j == SkipWs(s, v.next)
                 more == Append(items, NonDictEntry)
             IN  IF j > Len(s) THEN ParseFail
                 ELSE IF s[j] = "," THEN ParseItems(s, SkipWs(s, j + 1), more)
                 ELSE IF s[j] = "]" THEN ParseOk(j + 1, JsonList(more))
                 ELSE ParseFail

\* json.loads(s): ok is FALSE for JSONDecodeError
JsonLoads(s) ==
    LET v == ParseValue(s, SkipWs(s, 1))
    IN  IF v.ok /\ SkipWs(s, v.next) > Len(s) THEN v ELSE ParseFail

Directive == "CRITICAL"

\* lines 70-72 with the directive never appended
NextPromptUnchanged(prompt, attempt) == prompt

\* lines 70-72: the prompt after a JSONDecodeError in the given attempt
NextPrompt(prompt, attempt) ==
    IF attempt < max_retries - 1 THEN Append(prompt, Directive) ELSE prompt

\* line 59: range(max_retries) has another index
AttemptsLeft(attempt) == attempt < max_retries

\* lines 59-72, one pass of the loop
JsonAttempt_given(Replies) ==
    /\ jh_pc = "running"
    /\ AttemptsLeft(jh_attempt)
    /\ \E reply \in Replies :
          /\ jh_response' = reply
          /\ jh_requests' = Append(jh_requests, jh_prompt)
          /\ IF reply.kind = "malformed"
             THEN /\ jh_pc' = "raised"
                  /\ UNCHANGED <<jh_prompt, jh_attempt, jh_log, jh_result>>
             ELSE LET response == query_ollama(reply)
                  IN  IF Falsy(response)
                      THEN /\ jh_log' = Append(jh_log, "no_response")
                           /\ jh_attempt' = jh_attempt + 1
                           /\ UNCHANGED <<jh_prompt, jh_result, jh_pc>>
                      ELSE LET parsed == JsonLoads(StripSpace(response.text))
                           IN  IF parsed.ok
                               THEN /\ jh_result' = parsed.value
                                    /\ jh_pc' = "returned"
                                    /\ UNCHANGED <<jh_prompt, jh_attempt, jh_log>>
                               ELSE /\ jh_log' = Append(jh_log, "decode_error")
                                    /\ jh_prompt' = NextPrompt(jh_prompt, jh_attempt)
                                    /\ jh_attempt' = jh_attempt + 1
                                    /\ UNCHANGED <<jh_result, jh_pc>>

\* lines 74-75, after the loop
JsonGiveUp_given ==
    /\ jh_pc = "running"
    /\ ~AttemptsLeft(jh_attempt)
    /\ jh_result' = JsonNone
    /\ jh_pc' = "returned"
    /\ UNCHANGED <<jh_prompt, jh_attempt, jh_requests, jh_log, jh_response>>

RECURSIVE JsonTextsOfLen(_)
JsonTextsOfLen(n) ==
    IF n = 0 THEN {<<>>}
    ELSE {Append(s, c) : s \in JsonTextsOfLen(n - 1), c \in JsonAlphabet}

JsonTexts == UNION {JsonTextsOfLen(n) : n \in 0..MaxJsonLen}

JsonReplies == {HttpFailed, HttpMalformed} \cup {HttpText(text) : text \in JsonTexts}

JsonAttempt ==
    /\ JsonAttempt_given(JsonReplies)
    /\ UNCHANGED <<sanVars, exVars, pomVars, ghVars, cvVars, orVars>>

JsonGiveUp ==
    /\ JsonGiveUp_given
    /\ UNCHANGED <<sanVars, exVars, pomVars, ghVars, cvVars, orVars>>

JsonHelperInit == SanIdle /\ ExIdle /\ PomIdle /\ GhIdle /\ CvIdle /\ OrIdle /\ JhIdle

JsonHelperNext == JsonAttempt \/ JsonGiveUp

SpecJsonHelper == JsonHelperInit /\ [][JsonHelperNext]_vars

\* the loop is sequential code: a pass that can run does run
SpecJsonHelperFair == SpecJsonHelper /\ WF_vars(JsonHelperNext)

(***************************************************************************)
(* Properties of generate_json_with_ollama                                 *)
(***************************************************************************)
Parses(reply) ==
    /\ reply.kind = "text"
    /\ ~Falsy(query_ollama(reply))
    /\ JsonLoads(StripSpace(reply.text)).ok

ParseFailure(reply) ==
    /\ reply.kind = "text"
    /\ ~Falsy(query_ollama(reply))
    /\ ~JsonLoads(StripSpace(reply.text)).ok

CountDirectives(prompt) == Cardinality({i \in DOMAIN prompt : prompt[i] = Directive})

LastRequest(requests) == requests[Len(requests)]

\* C22: once a request has failed by transport error, HTTP error or timeout,
\* the helper issues no further request and returns failure; a further
\* request is issued only after a response that failed to parse.
C22_TransportFailureEndsHelper ==
    [][(jh_requests # <<>> /\ jh_response.kind = "failed") =>
          /\ jh_requests' = jh_requests
          /\ jh_pc' = "returned"
          /\ jh_result' = JsonNone]_vars

\* what does hold: a further request follows only a request that brought no
\* usable value, and it is issued while fewer than max_retries were made
C22_RequestOnlyAfterNoValue ==
    [][(jh_requests # <<>> /\ jh_requests' # jh_requests) =>
          /\ ~Parses(jh_response)
          /\ Len(jh_requests) < max_retries]_vars

C23_Bounded ==
    /\ Len(jh_requests) <= max_retries
    /\ (jh_pc = "returned" /\ jh_result # JsonNone) =>
          /\ Parses(jh_response)
          /\ jh_result = JsonLoads(StripSpace(jh_response.text)).value

C23_Step ==
    /\ jh_requests' # jh_requests =>
          /\ jh_pc = "running"
          /\ Len(jh_requests') = Len(jh_requests) + 1
          /\ jh_requests # <<>> => ~Parses(jh_response)
          /\ (jh_requests # <<>> /\ ParseFailure(jh_response)) =>
                CountDirectives(LastRequest(jh_requests')) =
                    CountDirectives(LastRequest(jh_requests)) + 1
          /\ Parses(jh_response') =>
                /\ jh_pc' = "returned"
                /\ jh_result' = JsonLoads(StripSpace(jh_response'.text)).value
    /\ (jh_pc = "running" /\ jh_pc' = "returned"
            /\ (jh_requests' = jh_requests \/ ~Parses(jh_response'))) =>
          jh_result' = JsonNone

\* C23: the helper issues at most max_retries requests and then terminates;
\* it returns the parsed value of the first response that parses and issues
\* no request after it; it returns failure when no attempt parsed; a request
\* that follows a parse failure carries exactly one more appended directive
\* than the request before it.
C23_BoundedRetry ==
    /\ []C23_Bounded
    /\ [][C23_Step]_vars
    /\ <>(jh_pc # "running")

C23_Witness ==
    /\ jh_pc = "returned"
    /\ Len(jh_requests) = max_retries
    /\ jh_log = <<"decode_error", "decode_error">>
    /\ CountDirectives(LastRequest(jh_requests)) = 2
    /\ jh_result.kind = "list"

(***************************************************************************)
(* Properties of process_url_and_gherkin                                   *)
(***************************************************************************)
StageOrder ==
    <<{"extraction"}, {"accessors"}, {"scenario", "document"}, {"tests"},
      {"validation"}, {"execution"}>>

Started(stage) == \E i \in DOMAIN or_stages : or_stages[i] = stage

C24_Order ==
    /\ Len(or_stages) <= Len(StageOrder)
    /\ \A i \in DOMAIN or_stages : or_stages[i] \in StageOrder[i]
    /\ Started("accessors") => ex_pc = "returned"
    /\ (Started("scenario") \/ Started("document")) => pom_pc = "returned" /\ pom_file
    /\ Started("tests") =>
          IF Started("scenario") THEN gh_pc = "returned" /\ gh_file.written
          ELSE or_gherkin_file /\ gh_pc = "start"
    /\ Started("validation") => cv_pc = "returned" /\ cv_file.written
    /\ Started("execution") =>
          cv_pc = "returned" /\ cv_file.written /\ or_pc \in {"finally", "returned"}
    /\ or_pc = "validated" => or_stages[Len(or_stages)] = "validation"
    /\ or_tests # "not_run" => Started("execution")

\* C24: the stages start in the order extraction, accessors, scenario (or
\* the loading of a provided document), tests, validation, execution; a
\* stage starts only after the one before it completed successfully, so
\* none starts after a failure; tests are executed only when the test file
\* was produced and passed the syntax check.
C24_StagesInOrderAfterSuccess ==
    /\ []C24_Order
    /\ [][(Started("execution")' /\ ~Started("execution")) => or_pc = "validated"]_vars
    /\ [][(or_pc' = "validated" /\ or_pc # "validated") =>
              (or_pc = "test_done" /\ cv_pc = "returned" /\ cv_file.written)]_vars

C24_Witness ==
    /\ or_pc = "returned"
    /\ Len(or_stages) = 6
    /\ or_tests = "passed"

StageFailed ==
    \/ ex_pc = "raised"
    \/ pom_pc \in {"failed", "raised"}
    \/ gh_pc \in {"failed", "raised"}
    \/ cv_pc \in {"failed", "raised"}

ArtifactsKept ==
    /\ ex_file.written => ex_file' = ex_file
    /\ pom_file => pom_file'
    /\ gh_file.written => gh_file' = gh_file
    /\ cv_file.written => cv_file' = cv_file

\* C25: when a stage fails, by raising or by returning a null result, no
\* exception leaves process_url_and_gherkin, the function returns to its
\* caller, and every artifact written by a stage that had succeeded stays
\* as it was written.
C25_StageFailureIsContained ==
    /\ [](or_pc # "raised")
    /\ [][ArtifactsKept]_vars
    /\ StageFailed ~> (or_pc = "returned")

C25_Witness ==
    /\ or_pc = "returned"
    /\ cv_pc = "raised"
    /\ ex_file.written /\ pom_file /\ gh_file.written

(***************************************************************************)
(* Persistence failures                                                    *)
(***************************************************************************)
\* the stage came to write its artifact: every step before the write passed
PomCameToWrite == pom_pc # "start" /\ ~OracleResultRejected(pom_locators)
GherkinCameToWrite ==
    gh_pc # "start" /\ gh_response.kind = "text" /\ ~Falsy(gh_content)
ConvertCameToWrite ==
    /\ cv_pc # "start" /\ cv_requests = 1
    /\ cv_response.kind = "text" /\ ~Falsy(query_ollama(cv_response))

C27_DefaultMappingContinuesToOracle ==
    (cv_pc # "start" /\ ~cv_locator_map
        /\ ParseSteps(SplitLines(cv_gherkin_content), None) # <<>>) =>
        cv_requests = 1

\* what does hold: without a mapping the stage always ends by raising, with
\* no request made and no file written
C27_NoMappingRaises ==
    (cv_pc # "start" /\ ~cv_locator_map) =>
        cv_pc = "raised" /\ cv_requests = 0 /\ ~cv_file.written

\* the stripped lines of the document given to convert_gherkin_to_test
DocLines ==
    LET lines == SplitLines(cv_gherkin_content)
    IN  [i \in DOMAIN lines |-> StripSpace(lines[i])]
IsTitleLine(line) == StartsWith(line, ScenarioColon)
IsStepKeywordLine(line) == ~IsTitleLine(line) /\ IsStepLine(line)
Latest(S) == CHOOSE j \in S : \A k \in S : k <= j
SanitizedTitle(line) ==
    sanitize_identifier_for_method_name(
        StripSpace(SubSeq(line, Len(ScenarioColon) + 1, Len(line))), CatElement)

\* C28: the parsed steps are the step-keyword lines of the document, each
\* once and in document order; each is paired with the sanitized title of
\* the latest scenario-title line before it, or with none when no title
\* line comes before it.
C28_StepsPairedWithLatestTitle ==
    (cv_pc # "start" /\ cv_locator_map) =>
        LET doc == DocLines
            StepLineNumbers == {i \in DOMAIN doc : IsStepKeywordLine(doc[i])}
            TitleLineNumbers == {i \in DOMAIN doc : IsTitleLine(doc[i])}
        IN  /\ Len(cv_steps) = Cardinality(StepLineNumbers)
            /\ \A i \in StepLineNumbers :
                  LET k == Cardinality({j \in StepLineNumbers : j <= i})
                      TitlesBefore == {j \in TitleLineNumbers : j < i}
                  IN  /\ cv_steps[k].line = doc[i]
                      /\ cv_steps[k].scenario =
                            IF TitlesBefore = {} THEN None
                            ELSE Str(SanitizedTitle(doc[Latest(TitlesBefore)]))

C28_Witness ==
    /\ cv_pc = "returned"
    /\ cv_gherkin_content =
          JoinLines(<<LineScenario, LineGivenX, LineScenarioZ, LineWhenAB>>)
    /\ cv_steps = <<Step(Str(<<"x", "_", "y">>), LineGivenX),
                    Step(Str(<<"z">>), KwWhen \o <<"a", " ", "b">>)>>

TimesStarted(stage) == Cardinality({i \in DOMAIN or_stages : or_stages[i] = stage})

\* C29: when a feature file is given and exists, generate_gherkin is not
\* called (no scenario request, no feature file written) and
\* convert_gherkin_to_test receives the content read from the file and no
\* locator_map; otherwise generate_gherkin is called exactly once before
\* convert_gherkin_to_test, which receives the document it wrote and its
\* locator_map.
C29_ProvidedDocumentSkipsScenarioStage ==
    /\ or_gherkin_file =>
          /\ gh_pc = "start" /\ ~gh_file.written /\ ~Started("scenario")
          /\ Started("tests") =>
                /\ TimesStarted("document") = 1
                /\ cv_gherkin_content = or_gherkin_content
                /\ ~cv_locator_map
    /\ ~or_gherkin_file =>
          /\ ~Started("document")
          /\ TimesStarted("scenario") <= 1
          /\ Started("tests") =>
                /\ TimesStarted("scenario") = 1
                /\ gh_pc = "returned"
                /\ gh_file.content = gh_content.text
                /\ cv_gherkin_content = gh_file.content
                /\ cv_locator_map

C29_Witness ==
    /\ or_gherkin_file
    /\ Started("tests")
    /\ cv_gherkin_content = LineScenario
    /\ or_pc = "returned"

\* C30: once the driver was created, the function does not return before
\* driver.quit() was called, whether the stages succeed, return a null
\* result or raise; the function does reach its return; and no stage is
\* started after driver.quit().
C30_SessionReleased ==
    /\ []((or_pc = "returned" /\ or_stages # <<>>) => or_driver = "quit")
    /\ []((or_pc = "returned" /\ or_driver # "none") => or_driver = "quit")
    /\ [][or_driver = "quit" => or_stages' = or_stages]_vars
    /\ (or_driver = "open") ~> (or_pc = "returned" /\ or_driver = "quit")

C30_Witness ==
    /\ or_pc = "returned"
    /\ or_driver = "quit"
    /\ pom_pc = "raised"
    /\ or_quits = 1

====
